---- MODULE Spec2Model ----
(***************************************************************************)
(* A model of src/index.js: the Telephone registry (number set, observer   *)
(* set, bounded event history), its phone-number validator and the         *)
(* asynchronous observer fan-out of dialPhoneNumber.                       *)
(*                                                                         *)
(* JavaScript strings are modelled as sequences of one-character strings.  *)
(***************************************************************************)
EXTENDS Integers, Sequences, FiniteSets, TLC

VARIABLES
  phoneNumbers,   \* Telephone.phoneNumbers: set of stored strings
  observers,      \* Telephone.observers: a JS Set, kept in insertion order
  eventHistory,   \* Telephone.eventHistory: sequence of PhoneEvent
  appended,       \* number of addToHistory calls so far (ghost)
  nCalls,         \* number of API calls made by the environment (ghost)
  last,           \* the most recent call / completion and its outcome (ghost)
  dial,           \* the dialPhoneNumber call in flight (its async frame)
  warmup,         \* number of leading calls that only fill the history (ghost)
  vin,            \* validator harness: the string handed to validatePhoneNumber
  vout,           \* validator harness: the outcome of that call
  subject,        \* observer harness: the fields of one PhoneNumberObserver
  notifyCall,     \* observer harness: the latest notify call on it
  query,          \* history harness: the history and the filter of a getEventHistory call
  answer          \* history harness: what that call returned

vars ==
  <<phoneNumbers, observers, eventHistory, appended, nCalls, last, dial, warmup, vin, vout, subject, notifyCall, query, answer>>

(***************************************************************************)
(* Bounds of the model.                                                    *)
(***************************************************************************)
\* API calls the environment makes in one behaviour
MaxCalls ==
  5
\* API calls the environment makes after the fill of a long run
MaxOver ==
  4
\* observer harness: notify calls made on the observer
MaxNotify ==
  2
\* history harness: events in the history that is queried
MaxHist ==
  3
\* history harness: the latest instant of the clock
MaxTime ==
  2
\* validator harness: free characters at the front of an input string
MaxHead ==
  2
\* validator harness: free characters at the end of an input string
MaxTail ==
  1
\* validator harness: longest run of one repeated character in the middle
MaxRun ==
  11

(***************************************************************************)
(* Characters and strings.                                                 *)
(***************************************************************************)
\* \d of the regular expressions
Digit ==
  {"0", "1", "2", "3", "4", "5", "6", "7", "8", "9"}

\* \s of the regular expressions (two representatives of the white space
\* characters: the space and the tab)
WhiteSpace ==
  {" ", "\t"}

\* the character class [\d\s-] of phoneRegex
PhoneChars ==
  Digit \cup WhiteSpace \cup {"-"}

\* the character class [\s-] of the normalising replace
Separators ==
  WhiteSpace \cup {"-"}

\* the quantifier {10,} of phoneRegex
MinRun ==
  10

\* the characters input strings of the validator harness are made of
Alphabet ==
  {"+", "1", "2", " ", "\t", "-", "a"}

Rep(c, k) ==
  [i \in 1..k |-> c]

Strs(n) ==
  UNION {[1..k -> Alphabet] : k \in 0..n}

(***************************************************************************)
(* Telephone.validatePhoneNumber                                           *)
(***************************************************************************)
\* [\d\s-]{10,}$ matched from position i: every character up to the end of
\* the input is in the class and there are at least MinRun of them
RunMatchesUnanchored(s, i) ==
  \E e \in i..Len(s) : e - i + 1 >= MinRun /\ \A j \in i..e : s[j] \in PhoneChars

RunMatches(s, i) ==
  Len(s) - i + 1 >= MinRun /\ \A j \in i..Len(s) : s[j] \in PhoneChars

\* phoneRegex.test(phoneNumber) for /^\+?[\d\s-]{10,}$/
PhoneRegexTest(s) ==
  \/ Len(s) >= 1 /\ s[1] = "+" /\ RunMatches(s, 2)
  \/ RunMatches(s, 1)

\* phoneNumber.replace(/[\s-]/, '') without the g flag: first match only
RECURSIVE ReplaceFirst(_)
ReplaceFirst(s) ==
  IF s = <<>> THEN <<>>
  ELSE IF Head(s) \in Separators THEN Tail(s)
  ELSE <<Head(s)>> \o ReplaceFirst(Tail(s))

\* phoneNumber.replace(/[\s-]/g, ''): scan left to right, drop each match
RECURSIVE ReplaceAll(_)
ReplaceAll(s) ==
  IF s = <<>> THEN <<>>
  ELSE IF Head(s) \in Separators THEN ReplaceAll(Tail(s))
  ELSE <<Head(s)>> \o ReplaceAll(Tail(s))

\* outcome of a call: a returned string, or a thrown PhoneNumberError
Returned(v) ==
  [kind |-> "return", value |-> v, error |-> "none"]

Thrown(e) ==
  [kind |-> "throw", value |-> <<>>, error |-> e]

validatePhoneNumber(phoneNumber) ==
  IF ~PhoneRegexTest(phoneNumber)
  THEN Thrown("PhoneNumberError")
  ELSE Returned(ReplaceAll(phoneNumber))

(***************************************************************************)
(* PhoneEvent and the bounded history                                      *)
(***************************************************************************)
\* this.maxHistorySize = 100
maxHistorySize ==
  100

\* new PhoneEvent(type, phoneNumber); seq numbers the appends (ghost), the
\* timestamp is read by getEventHistory only and is carried by StampedEvent
PhoneEvent(type, phoneNumber, seq) ==
  [type |-> type, phoneNumber |-> phoneNumber, seq |-> seq]

\* addToHistory with the comparison >= instead of >
addToHistoryOffByOne(history, event) ==
  LET pushed == Append(history, event)
  IN  IF Len(pushed) >= maxHistorySize THEN Tail(pushed) ELSE pushed

\* Telephone.addToHistory: push, then shift when over the limit
addToHistory(history, event) ==
  LET pushed == Append(history, event)
  IN  IF Len(pushed) > maxHistorySize THEN Tail(pushed) ELSE pushed

(***************************************************************************)
(* Observers                                                               *)
(***************************************************************************)
\* the PhoneNumberObserver objects of the environment
ObserverObjects ==
  {"observer1", "observer2"}

\* observer.id
ObserverId(o) ==
  IF o = "observer1" THEN <<"o", "b", "s", "1">> ELSE <<"o", "b", "s", "2">>

\* observer.types after construction and addCustomNotification
ObserverTypes(o) ==
  IF o = "observer1" THEN {"simple", "dial"} ELSE {"detailed", "emergency"}

\* the keys of observer.customHandlers
ObserverHandlers(o) ==
  IF o = "observer1" THEN {"dial"} ELSE {"emergency"}

\* values a custom handler may throw or reject with: an Error object, a
\* string, null, undefined
FailureValues ==
  {"Error", "string", "null", "undefined"}

\* values whose property access (error.message) throws a TypeError
Nullish ==
  {"null", "undefined"}

\* notify whose built-in notifications are sent for dial events only
LaunchedActionsGated(types, handlerKeys, eventType) ==
  (IF "simple" \in types /\ eventType = "dial" THEN {"simple"} ELSE {})
  \cup (IF "detailed" \in types /\ eventType = "dial" THEN {"detailed"} ELSE {})
  \cup (IF eventType \in handlerKeys THEN {"custom"} ELSE {})

\* the three if statements of notify, for an observer with the given
\* this.types and the given keys of this.customHandlers
LaunchedActions(types, handlerKeys, eventType) ==
  (IF "simple" \in types THEN {"simple"} ELSE {})
  \cup (IF "detailed" \in types THEN {"detailed"} ELSE {})
  \cup (IF eventType \in handlerKeys THEN {"custom"} ELSE {})

\* PhoneNumberObserver.notify: the notifications pushed for one call
NotifyActions(o, eventType) ==
  LaunchedActions(ObserverTypes(o), ObserverHandlers(o), eventType)

\* the ways the promise of one notify call can stand right after the call:
\* without a custom handler Promise.all is over resolved promises; a handler
\* may return, return a pending promise, or throw
NotifyOutcomes(o, eventType) ==
  IF "custom" \in NotifyActions(o, eventType)
  THEN {"fulfilled", "pending"} \cup FailureValues
  ELSE {"fulfilled"}

\* observer.notify(..).catch(error => console.error(`... ${error.message}`)):
\* the state of the promise that notifyObservers collects
CatchOutcome(status) ==
  IF status \in {"none", "pending"} THEN "pending"
  ELSE IF status = "fulfilled" THEN "fulfilled"
  ELSE IF status \in Nullish THEN "rejected"
  ELSE "fulfilled"

(***************************************************************************)
(* The environment's inputs                                                *)
(***************************************************************************)
\* '+12-3456-7890'
NumA1 ==
  <<"+", "1", "2", "-", "3", "4", "5", "6", "-", "7", "8", "9", "0">>

\* '+1234567890'
NumA2 ==
  <<"+", "1", "2", "3", "4", "5", "6", "7", "8", "9", "0">>

\* '123 456 789'
NumB1 ==
  <<"1", "2", "3", " ", "4", "5", "6", " ", "7", "8", "9">>

\* '123456789'
NumB2 ==
  <<"1", "2", "3", "4", "5", "6", "7", "8", "9">>

\* '12345\t67890'
NumC1 ==
  <<"1", "2", "3", "4", "5", "\t", "6", "7", "8", "9", "0">>

Inputs ==
  {NumA1, NumA2, NumB1, NumB2, NumC1}

(***************************************************************************)
(* State after construction                                                *)
(***************************************************************************)
NoString ==
  <<>>

NoObserver ==
  "none"

\* the record of a call: who was called with what, and how it came back
CallRecord(id, op, arg, obs, kind, bool, value, error) ==
  [id |-> id, op |-> op, arg |-> arg, obs |-> obs, kind |-> kind,
   bool |-> bool, value |-> value, error |-> error]

NoCall ==
  CallRecord(0, "none", NoString, NoObserver, "none", FALSE, NoString, "none")

IdleDial ==
  [pc |-> "idle", id |-> 0, arg |-> NoString, number |-> NoString,
   snapshot |-> <<>>, idx |-> 0,
   notif |-> [o \in ObserverObjects |-> "none"], invoked |-> <<>>]

NotRun ==
  [kind |-> "none", value |-> NoString, error |-> "none"]

\* the harnesses of the observer and of the history query at rest
NoSubject ==
  [types |-> {}, customHandlers |-> {}]

NoNotify ==
  [seq |-> 0, arg |-> "none", eventType |-> "none", ran |-> {},
   handler |-> "none", failure |-> "none", promise |-> "none", promiseError |-> "none"]

\* a filter option that holds an instant: left out, a number of
\* milliseconds, or a Date object
NoInstant ==
  [given |-> FALSE, date |-> FALSE, t |-> 0]

NoQuery ==
  [history |-> <<>>, type |-> "undefined", startDate |-> NoInstant, endDate |-> NoInstant]

NoAnswer ==
  [done |-> FALSE, events |-> <<>>]

HarnessAtRest ==
  /\ subject = NoSubject
  /\ notifyCall = NoNotify
  /\ query = NoQuery
  /\ answer = NoAnswer

\* constructor(): empty sets, empty history
InitTelephone ==
  /\ phoneNumbers = {}
  /\ observers = <<>>
  /\ eventHistory = <<>>
  /\ appended = 0
  /\ nCalls = 0
  /\ last = NoCall
  /\ dial = IdleDial

Init ==
  /\ InitTelephone
  /\ warmup = 0
  /\ vin = NoString
  /\ vout = NotRun
  /\ HarnessAtRest

\* the environment may make another call
CanCall ==
  /\ warmup <= nCalls
  /\ nCalls < warmup + (IF warmup = 0 THEN MaxCalls ELSE MaxOver)

(***************************************************************************)
(* Telephone.addPhoneNumber                                                *)
(***************************************************************************)
\* addPhoneNumber that records the event only when the number is new
AddPhoneNumberCallSkipsKnown(phoneNumber) ==
  LET r == validatePhoneNumber(phoneNumber)
      ev == PhoneEvent("add", r.value, appended + 1)
  IN  /\ phoneNumbers' = phoneNumbers \cup {r.value}
      /\ eventHistory' = IF r.value \in phoneNumbers THEN eventHistory
                         ELSE addToHistory(eventHistory, ev)
      /\ appended' = IF r.value \in phoneNumbers THEN appended ELSE appended + 1
      /\ last' = CallRecord(nCalls + 1, "add", phoneNumber, NoObserver,
                            "return", FALSE, r.value, "none")

\* the try block of addPhoneNumber once validation has passed
AddPhoneNumberCall(phoneNumber) ==
  LET r == validatePhoneNumber(phoneNumber)
      ev == PhoneEvent("add", r.value, appended + 1)
  IN  /\ phoneNumbers' = phoneNumbers \cup {r.value}
      /\ eventHistory' = addToHistory(eventHistory, ev)
      /\ appended' = appended + 1
      /\ last' = CallRecord(nCalls + 1, "add", phoneNumber, NoObserver,
                            "return", FALSE, r.value, "none")

\* a call that records its event before it validates its argument
ValidationFailsLogged(op, phoneNumber) ==
  /\ last' = CallRecord(nCalls + 1, op, phoneNumber, NoObserver,
                        "throw", FALSE, NoString, validatePhoneNumber(phoneNumber).error)
  /\ eventHistory' = addToHistory(eventHistory, PhoneEvent(op, phoneNumber, appended + 1))
  /\ appended' = appended + 1
  /\ UNCHANGED phoneNumbers

\* the catch block shared by addPhoneNumber, removePhoneNumber and
\* dialPhoneNumber: log and rethrow
ValidationFails(op, phoneNumber) ==
  /\ last' = CallRecord(nCalls + 1, op, phoneNumber, NoObserver,
                        "throw", FALSE, NoString, validatePhoneNumber(phoneNumber).error)
  /\ UNCHANGED <<phoneNumbers, eventHistory, appended>>

addPhoneNumberBody(phoneNumber) ==
  /\ IF validatePhoneNumber(phoneNumber).kind = "throw"
     THEN ValidationFails("add", phoneNumber)
     ELSE AddPhoneNumberCall(phoneNumber)
  /\ nCalls' = nCalls + 1
  /\ UNCHANGED <<observers, dial, warmup, vin, vout, subject, notifyCall, query, answer>>

addPhoneNumber(phoneNumber) ==
  /\ CanCall
  /\ addPhoneNumberBody(phoneNumber)

(***************************************************************************)
(* Telephone.removePhoneNumber                                             *)
(***************************************************************************)
\* removePhoneNumber that records the event whether or not delete succeeded
RemovePhoneNumberCallAlwaysLogs(phoneNumber) ==
  LET r == validatePhoneNumber(phoneNumber)
      ev == PhoneEvent("remove", r.value, appended + 1)
  IN  /\ phoneNumbers' = phoneNumbers \ {r.value}
      /\ eventHistory' = addToHistory(eventHistory, ev)
      /\ appended' = appended + 1
      /\ last' = CallRecord(nCalls + 1, "remove", phoneNumber, NoObserver,
                            "return", r.value \in phoneNumbers, NoString, "none")

\* the try block of removePhoneNumber once validation has passed
RemovePhoneNumberCall(phoneNumber) ==
  LET r == validatePhoneNumber(phoneNumber)
      ev == PhoneEvent("remove", r.value, appended + 1)
  IN  IF r.value \in phoneNumbers
      THEN /\ phoneNumbers' = phoneNumbers \ {r.value}
           /\ eventHistory' = addToHistory(eventHistory, ev)
           /\ appended' = appended + 1
           /\ last' = CallRecord(nCalls + 1, "remove", phoneNumber, NoObserver,
                                 "return", TRUE, NoString, "none")
      ELSE /\ last' = CallRecord(nCalls + 1, "remove", phoneNumber, NoObserver,
                                 "return", FALSE, NoString, "none")
           /\ UNCHANGED <<phoneNumbers, eventHistory, appended>>

removePhoneNumber(phoneNumber) ==
  /\ CanCall
  /\ IF validatePhoneNumber(phoneNumber).kind = "throw"
     THEN ValidationFails("remove", phoneNumber)
     ELSE RemovePhoneNumberCall(phoneNumber)
  /\ nCalls' = nCalls + 1
  /\ UNCHANGED <<observers, dial, warmup, vin, vout, subject, notifyCall, query, answer>>

(***************************************************************************)
(* Telephone.addObserver / removeObserver                                  *)
(***************************************************************************)
\* an add that keeps a list: o is appended whether or not it is a member
SetAddAgain(set, o) ==
  Append(set, o)

\* Set.prototype.add on the insertion-ordered set
SetAdd(set, o) ==
  IF \E i \in 1..Len(set) : set[i] = o THEN set ELSE Append(set, o)

\* a delete that drops the oldest member when o is a member
SetDeleteOldest(set, o) ==
  IF \E i \in 1..Len(set) : set[i] = o THEN Tail(set) ELSE set

\* Set.prototype.delete: the set without o
SetDelete(set, o) ==
  SelectSeq(set, LAMBDA x : x # o)

\* Set.prototype.has
SetHas(set, o) ==
  \E i \in 1..Len(set) : set[i] = o

addObserver(o) ==
  /\ CanCall
  /\ observers' = SetAdd(observers, o)
  /\ eventHistory' = addToHistory(eventHistory,
                        PhoneEvent("observerAdded", ObserverId(o), appended + 1))
  /\ appended' = appended + 1
  /\ last' = CallRecord(nCalls + 1, "addObserver", NoString, o,
                        "return", FALSE, NoString, "none")
  /\ nCalls' = nCalls + 1
  /\ UNCHANGED <<phoneNumbers, dial, warmup, vin, vout, subject, notifyCall, query, answer>>

\* removeObserver that records the event whether or not delete succeeded
removeObserverAlwaysLogs(o) ==
  /\ CanCall
  /\ observers' = SetDelete(observers, o)
  /\ eventHistory' = addToHistory(eventHistory,
                        PhoneEvent("observerRemoved", ObserverId(o), appended + 1))
  /\ appended' = appended + 1
  /\ last' = CallRecord(nCalls + 1, "removeObserver", NoString, o,
                        "return", SetHas(observers, o), NoString, "none")
  /\ nCalls' = nCalls + 1
  /\ UNCHANGED <<phoneNumbers, dial, warmup, vin, vout, subject, notifyCall, query, answer>>

removeObserver(o) ==
  /\ CanCall
  /\ IF SetHas(observers, o)
     THEN /\ observers' = SetDelete(observers, o)
          /\ eventHistory' = addToHistory(eventHistory,
                                PhoneEvent("observerRemoved", ObserverId(o), appended + 1))
          /\ appended' = appended + 1
          /\ last' = CallRecord(nCalls + 1, "removeObserver", NoString, o,
                                "return", TRUE, NoString, "none")
     ELSE /\ last' = CallRecord(nCalls + 1, "removeObserver", NoString, o,
                                "return", FALSE, NoString, "none")
          /\ UNCHANGED <<observers, eventHistory, appended>>
  /\ nCalls' = nCalls + 1
  /\ UNCHANGED <<phoneNumbers, dial, warmup, vin, vout, subject, notifyCall, query, answer>>

(***************************************************************************)
(* Telephone.dialPhoneNumber and notifyObservers                           *)
(***************************************************************************)
\* the frame of a dial that has appended its event and entered
\* notifyObservers: Array.from(this.observers) is taken here
DialFrame(phoneNumber, number) ==
  [pc |-> IF observers = <<>> THEN "await" ELSE "map",
   id |-> nCalls + 1, arg |-> phoneNumber, number |-> number,
   snapshot |-> observers, idx |-> 1,
   notif |-> [o \in ObserverObjects |-> "none"], invoked |-> <<>>]

\* dialPhoneNumber that records the dial event before looking the number up
DialCallLogsUnknown(phoneNumber) ==
  LET number == validatePhoneNumber(phoneNumber).value
      ev == PhoneEvent("dial", number, appended + 1)
      call == CallRecord(nCalls + 1, "dial", phoneNumber, NoObserver,
                         "return", FALSE, NoString, "none")
  IN  /\ eventHistory' = addToHistory(eventHistory, ev)
      /\ appended' = appended + 1
      /\ IF number \in phoneNumbers
         THEN /\ dial.pc = "idle"
              /\ dial' = DialFrame(phoneNumber, number)
              /\ last' = [call EXCEPT !.kind = "pending"]
         ELSE /\ last' = call
              /\ UNCHANGED dial
      /\ UNCHANGED phoneNumbers

\* the try block of dialPhoneNumber once validation has passed, up to the
\* await: has(), addToHistory, the start of notifyObservers. One dial of a
\* known number is followed at a time: the next one starts when the frame
\* is idle again.
DialCall(phoneNumber) ==
  LET number == validatePhoneNumber(phoneNumber).value
      ev == PhoneEvent("dial", number, appended + 1)
      call == CallRecord(nCalls + 1, "dial", phoneNumber, NoObserver,
                         "return", FALSE, NoString, "none")
  IN  IF number \in phoneNumbers
      THEN /\ dial.pc = "idle"
           /\ eventHistory' = addToHistory(eventHistory, ev)
           /\ appended' = appended + 1
           /\ dial' = DialFrame(phoneNumber, number)
           /\ last' = [call EXCEPT !.kind = "pending"]
           /\ UNCHANGED phoneNumbers
      ELSE /\ last' = call
           /\ UNCHANGED <<phoneNumbers, eventHistory, appended, dial>>

dialPhoneNumber(phoneNumber) ==
  /\ CanCall
  /\ IF validatePhoneNumber(phoneNumber).kind = "throw"
     THEN ValidationFails("dial", phoneNumber) /\ UNCHANGED dial
     ELSE DialCall(phoneNumber)
  /\ nCalls' = nCalls + 1
  /\ UNCHANGED <<observers, warmup, vin, vout, subject, notifyCall, query, answer>>

\* a map that walks the live observer set instead of the array copied from
\* it when the fan-out started
NotifyObserverLive ==
  /\ dial.pc = "map"
  /\ IF dial.idx > Len(observers)
     THEN dial' = [dial EXCEPT !.pc = "await"]
     ELSE LET o == observers[dial.idx]
              call == [observer |-> o, phoneNumber |-> dial.number, eventType |-> "dial",
                       actions |-> NotifyActions(o, "dial")]
          IN  \E outcome \in NotifyOutcomes(o, "dial") :
                dial' = [dial EXCEPT !.notif[o] = outcome,
                                     !.invoked = Append(@, call),
                                     !.idx = @ + 1,
                                     !.pc = IF dial.idx + 1 > Len(observers)
                                            THEN "await" ELSE "map"]
  /\ UNCHANGED <<phoneNumbers, observers, eventHistory, appended, nCalls, last, warmup, vin, vout, subject, notifyCall, query, answer>>

\* one iteration of the map in notifyObservers: observer.notify(phoneNumber)
\* runs up to its await (built-in actions done, custom handler called)
NotifyObserver ==
  /\ dial.pc = "map"
  /\ LET o == dial.snapshot[dial.idx]
         call == [observer |-> o, phoneNumber |-> dial.number, eventType |-> "dial",
                  actions |-> NotifyActions(o, "dial")]
     IN  \E outcome \in NotifyOutcomes(o, "dial") :
           dial' = [dial EXCEPT !.notif[o] = outcome,
                                !.invoked = Append(@, call),
                                !.idx = @ + 1,
                                !.pc = IF dial.idx + 1 > Len(dial.snapshot)
                                       THEN "await" ELSE "map"]
  /\ UNCHANGED <<phoneNumbers, observers, eventHistory, appended, nCalls, last, warmup, vin, vout, subject, notifyCall, query, answer>>

\* the promise a custom handler returned settles while the dial is suspended
Settle(o) ==
  /\ dial.pc = "await"
  /\ dial.notif[o] = "pending"
  /\ \E outcome \in {"fulfilled"} \cup FailureValues :
       dial' = [dial EXCEPT !.notif[o] = outcome]
  /\ UNCHANGED <<phoneNumbers, observers, eventHistory, appended, nCalls, last, warmup, vin, vout, subject, notifyCall, query, answer>>

\* how the dial in flight comes back to its caller
DialCompletion(kind, bool, error) ==
  CallRecord(dial.id, "dial", dial.arg, NoObserver, kind, bool, NoString, error)

\* a dial that returns true as soon as one notification has fulfilled
DialReturnEarly ==
  /\ dial.pc = "await"
  /\ \/ dial.snapshot = <<>>
     \/ \E i \in 1..Len(dial.snapshot) : CatchOutcome(dial.notif[dial.snapshot[i]]) = "fulfilled"
  /\ last' = DialCompletion("return", TRUE, "none")
  /\ dial' = IdleDial
  /\ UNCHANGED <<phoneNumbers, observers, eventHistory, appended, nCalls, warmup, vin, vout, subject, notifyCall, query, answer>>

\* Promise.all(notifications) fulfils: return true
DialReturn ==
  /\ dial.pc = "await"
  /\ \A i \in 1..Len(dial.snapshot) : CatchOutcome(dial.notif[dial.snapshot[i]]) = "fulfilled"
  /\ last' = DialCompletion("return", TRUE, "none")
  /\ dial' = IdleDial
  /\ UNCHANGED <<phoneNumbers, observers, eventHistory, appended, nCalls, warmup, vin, vout, subject, notifyCall, query, answer>>

\* Promise.all(notifications) rejects with the TypeError of a catch
\* callback: the catch block of dialPhoneNumber logs and rethrows it
DialReject ==
  /\ dial.pc = "await"
  /\ \E i \in 1..Len(dial.snapshot) : CatchOutcome(dial.notif[dial.snapshot[i]]) = "rejected"
  /\ last' = DialCompletion("throw", FALSE, "TypeError")
  /\ dial' = IdleDial
  /\ UNCHANGED <<phoneNumbers, observers, eventHistory, appended, nCalls, warmup, vin, vout, subject, notifyCall, query, answer>>

(***************************************************************************)
(* Specifications                                                          *)
(***************************************************************************)
Next ==
  \/ \E s \in Inputs : addPhoneNumber(s)
  \/ \E s \in Inputs : removePhoneNumber(s)
  \/ \E s \in Inputs : dialPhoneNumber(s)
  \/ \E o \in ObserverObjects : addObserver(o)
  \/ \E o \in ObserverObjects : removeObserver(o)
  \/ NotifyObserver
  \/ \E o \in ObserverObjects : Settle(o)
  \/ DialReturn
  \/ DialReject

Spec ==
  Init /\ [][Next]_vars

\* the same program under a scheduler that runs every ready job: the map of
\* notifyObservers runs to its end, the continuation of dialPhoneNumber
\* runs once Promise.all has settled, and every handler promise that is
\* pending is settled at some time (the premise under which a dial is
\* expected to come back)
SpecLive ==
  /\ Init
  /\ [][Next]_vars
  /\ WF_vars(NotifyObserver)
  /\ \A o \in ObserverObjects : WF_vars(Settle(o))
  /\ WF_vars(DialReturn)
  /\ WF_vars(DialReject)

\* a long run: the first calls add one number again and again until the
\* history is one short of its limit, then the environment is free
Fill ==
  /\ nCalls < warmup
  /\ addPhoneNumberBody(NumA1)

InitLong ==
  /\ InitTelephone
  /\ warmup = maxHistorySize - 1
  /\ vin = NoString
  /\ vout = NotRun
  /\ HarnessAtRest

NextLong ==
  \/ Fill
  \/ Next

SpecLong ==
  InitLong /\ [][NextLong]_vars

\* the validator on its own: one call of validatePhoneNumber on one string;
\* the strings tried are any head, a run of one character, any tail
Validate ==
  /\ vout = NotRun
  /\ vout' = validatePhoneNumber(vin)
  /\ UNCHANGED <<phoneNumbers, observers, eventHistory, appended, nCalls, last, dial, warmup, vin, subject, notifyCall, query, answer>>

InitValidate ==
  /\ InitTelephone
  /\ warmup = 0
  /\ \E h \in Strs(MaxHead), c \in Alphabet, k \in 0..MaxRun, t \in Strs(MaxTail) :
       vin = h \o Rep(c, k) \o t
  /\ vout = NotRun
  /\ HarnessAtRest

NextValidate ==
  Validate

SpecValidate ==
  InitValidate /\ [][NextValidate]_vars

(***************************************************************************)
(* PhoneNumberObserver on its own: constructor, addCustomNotification and  *)
(* notify                                                                  *)
(***************************************************************************)
\* the type tags given to the constructor or to addCustomNotification
Tags ==
  {"simple", "detailed", "emergency", "dial"}

\* the handler functions of the environment
Handlers ==
  {"handlerA", "handlerB"}

\* the second argument of notify: a tag, another string, or left out
NotifyArgs ==
  Tags \cup {"remove", "undefined"}

\* Map.prototype.set on customHandlers, a set of [type, handler] entries
MapSet(map, type, handler) ==
  {e \in map : e.type # type} \cup {[type |-> type, handler |-> handler]}

\* the keys of the map
MapKeys(map) ==
  {e.type : e \in map}

\* Map.prototype.get for a key the map has
MapGet(map, type) ==
  (CHOOSE e \in map : e.type = type).handler

\* addCustomNotification(type, handler)
AddCustomNotification(type, handler) ==
  /\ subject' = [types |-> subject.types \cup {type},
                 customHandlers |-> MapSet(subject.customHandlers, type, handler)]
  /\ UNCHANGED <<phoneNumbers, observers, eventHistory, appended, nCalls, last, dial,
                 warmup, vin, vout, notifyCall, query, answer>>

\* the parameter default: eventType = 'dial' when the argument is left out
EventTypeOf(arg) ==
  IF arg = "undefined" THEN "dial" ELSE arg

\* what a custom handler can do when it is called: return a value, return
\* a promise that is pending or already rejected, or throw
HandlerOutcomes ==
  {[status |-> "fulfilled", failure |-> "none"], [status |-> "pending", failure |-> "none"]}
  \cup {[status |-> st, failure |-> v] : st \in {"rejected", "threw"}, v \in FailureValues}

\* Promise.all over promises in the given states
PromiseAll(statuses) ==
  IF "rejected" \in statuses THEN "rejected"
  ELSE IF "pending" \in statuses THEN "pending"
  ELSE "fulfilled"

\* Promise.race in the place of Promise.all: settled as soon as one is
RacePromise(builtins, handler) ==
  IF handler = "threw" THEN "rejected"
  ELSE IF builtins # {} THEN "fulfilled"
  ELSE IF handler = "none" THEN "pending"
  ELSE handler

\* the promise of the async function notify: rejected when the handler
\* call threw, otherwise Promise.all over the resolved promises of the
\* built-in notifications and the promise of the handler's result
NotifyPromise(builtins, handler) ==
  IF handler = "threw" THEN "rejected"
  ELSE PromiseAll({"fulfilled" : b \in builtins}
                  \cup (IF handler = "none" THEN {} ELSE {handler}))

\* notify(phoneNumber, arg) up to its await
Notify(arg) ==
  /\ notifyCall.seq < MaxNotify
  /\ LET eventType == EventTypeOf(arg)
         launched == LaunchedActions(subject.types, MapKeys(subject.customHandlers), eventType)
         builtins == launched \ {"custom"}
         custom == "custom" \in launched
     IN  \E h \in (IF custom THEN HandlerOutcomes
                   ELSE {[status |-> "none", failure |-> "none"]}) :
           notifyCall' =
             [seq |-> notifyCall.seq + 1, arg |-> arg, eventType |-> eventType,
              ran |-> builtins \cup
                      (IF custom THEN {MapGet(subject.customHandlers, eventType)} ELSE {}),
              handler |-> h.status, failure |-> h.failure,
              promise |-> NotifyPromise(builtins, h.status),
              promiseError |-> h.failure]
  /\ UNCHANGED <<phoneNumbers, observers, eventHistory, appended, nCalls, last, dial,
                 warmup, vin, vout, subject, query, answer>>

\* the promise the handler returned settles; Promise.all follows
HandlerSettles ==
  /\ notifyCall.handler = "pending"
  /\ \E h \in {o \in HandlerOutcomes : o.status \in {"fulfilled", "rejected"}} :
       notifyCall' = [notifyCall EXCEPT
                        !.handler = h.status, !.failure = h.failure,
                        !.promise = NotifyPromise(notifyCall.ran \cap {"simple", "detailed"}, h.status),
                        !.promiseError = h.failure]
  /\ UNCHANGED <<phoneNumbers, observers, eventHistory, appended, nCalls, last, dial,
                 warmup, vin, vout, subject, query, answer>>

\* new PhoneNumberObserver(id, ...types)
InitNotify ==
  /\ InitTelephone
  /\ warmup = 0
  /\ vin = NoString
  /\ vout = NotRun
  /\ \E types \in SUBSET (Tags \ {"dial"}) :
       subject = [types |-> types, customHandlers |-> {}]
  /\ notifyCall = NoNotify
  /\ query = NoQuery
  /\ answer = NoAnswer

NextNotify ==
  \/ \E type \in Tags, handler \in Handlers : AddCustomNotification(type, handler)
  \/ \E arg \in NotifyArgs : Notify(arg)
  \/ HandlerSettles

SpecNotify ==
  InitNotify /\ [][NextNotify]_vars

(***************************************************************************)
(* Telephone.getEventHistory on its own                                    *)
(***************************************************************************)
\* the event types of the histories that are queried
QueryKinds ==
  {"add", "dial", "remove"}

\* the values of filter.type: left out, the empty string, an event type
QueryTypes ==
  {"undefined", ""} \cup QueryKinds

\* the values of filter.startDate and filter.endDate
QueryInstants ==
  {NoInstant} \cup {[given |-> TRUE, date |-> d, t |-> t] : d \in BOOLEAN, t \in 0..(MaxTime + 1)}

\* an event as the constructor leaves it, timestamp = new Date() included
StampedEvent(type, phoneNumber, seq, timestamp) ==
  [type |-> type, phoneNumber |-> phoneNumber, seq |-> seq, timestamp |-> timestamp]

\* ToBoolean of filter.type: undefined and '' are falsy
TruthyType(type) ==
  type \notin {"undefined", ""}

\* ToBoolean of filter.startDate / filter.endDate: undefined and the number
\* 0 are falsy, every Date object is truthy
TruthyInstant(v) ==
  v.given /\ (v.date \/ v.t # 0)

\* Telephone.getEventHistory: copy, then one filter per truthy option
getEventHistory(history, type, startDate, endDate) ==
  LET byType  == IF TruthyType(type)
                 THEN SelectSeq(history, LAMBDA event : event.type = type)
                 ELSE history
      byStart == IF TruthyInstant(startDate)
                 THEN SelectSeq(byType, LAMBDA event : event.timestamp >= startDate.t)
                 ELSE byType
  IN  IF TruthyInstant(endDate)
      THEN SelectSeq(byStart, LAMBDA event : event.timestamp <= endDate.t)
      ELSE byStart

\* one call of getEventHistory(filter)
Query ==
  /\ ~answer.done
  /\ answer' = [done |-> TRUE,
                events |-> getEventHistory(query.history, query.type,
                                           query.startDate, query.endDate)]
  /\ UNCHANGED <<phoneNumbers, observers, eventHistory, appended, nCalls, last, dial,
                 warmup, vin, vout, subject, notifyCall, query>>

\* histories of up to MaxHist events in chronological order, and any filter
InitQuery ==
  /\ InitTelephone
  /\ warmup = 0
  /\ vin = NoString
  /\ vout = NotRun
  /\ subject = NoSubject
  /\ notifyCall = NoNotify
  /\ \E n \in 0..MaxHist :
       \E kinds \in [1..n -> QueryKinds], times \in [1..n -> 1..MaxTime] :
         /\ \A i \in 1..(n - 1) : times[i] <= times[i + 1]
         /\ \E type \in QueryTypes, startDate \in QueryInstants, endDate \in QueryInstants :
              query = [history |-> [i \in 1..n |-> StampedEvent(kinds[i], NumA2, i, times[i])],
                       type |-> type, startDate |-> startDate, endDate |-> endDate]
  /\ answer = NoAnswer

NextQuery ==
  Query

SpecQuery ==
  InitQuery /\ [][NextQuery]_vars

(***************************************************************************)
(* Properties                                                              *)
(***************************************************************************)
\* this step is a fresh call of the given operation
IsCall(op) ==
  /\ nCalls' = nCalls + 1
  /\ last'.id = nCalls'
  /\ last'.op = op

\* this step is the completion of the dial in flight
IsDialCompletion ==
  /\ dial.pc = "await"
  /\ dial'.pc = "idle"
  /\ last'.op = "dial"
  /\ last'.id = dial.id

\* s without its white space and hyphens
Stripped(s) ==
  SelectSeq(s, LAMBDA c : c \notin WhiteSpace \cup {"-"})

\* an optional '+' followed by at least ten characters of the given class,
\* over the whole of s
HasFormat(s, class) ==
  \E p \in {0, 1} :
    /\ p = 1 => (Len(s) >= 1 /\ s[1] = "+")
    /\ Len(s) - p >= 10
    /\ \A j \in (p + 1)..Len(s) : s[j] \in class

\* the history after one more event was appended to h
OneAppended(h, type, number) ==
  LET e == [type |-> type, phoneNumber |-> number, seq |-> appended + 1]
  IN  /\ appended' = appended + 1
      /\ eventHistory' \in {Append(h, e), Tail(Append(h, e))}
      /\ Len(eventHistory') <= maxHistorySize

\* C1: the history holds at most maxHistorySize events, and always exactly
\* the most recently appended ones, in the order they were appended: once
\* more than maxHistorySize were appended it holds the last maxHistorySize.
C1_HistoryKeepsMostRecent ==
  /\ Len(eventHistory) <= maxHistorySize
  /\ Len(eventHistory) = IF appended > maxHistorySize THEN maxHistorySize ELSE appended
  /\ \A i \in 1..Len(eventHistory) :
       eventHistory[i].seq = appended - Len(eventHistory) + i

\* more than one event was evicted, and events of several operations are held
C1_Witness ==
  /\ appended > maxHistorySize + 1
  /\ Len(eventHistory) = maxHistorySize
  /\ eventHistory[1].seq = appended - maxHistorySize + 1
  /\ \E i \in 1..Len(eventHistory) : eventHistory[i].type = "observerAdded"
  /\ \E i \in 1..Len(eventHistory) : eventHistory[i].type = "dial"

\* C2: a dial of a valid string answers false at once when the number is
\* not known; when it is known the dial starts, and it then comes back with
\* true, never with a failure, whatever the handlers threw or rejected
\* with, and every observer registered at the start was notified.
C2_DialIgnoresNotificationFailures ==
  [][ /\ (IsCall("dial") /\ HasFormat(last'.arg, Digit \cup WhiteSpace \cup {"-"})) =>
           IF Stripped(last'.arg) \in phoneNumbers
           THEN last'.kind = "pending"
           ELSE last'.kind = "return" /\ last'.bool = FALSE
      /\ IsDialCompletion =>
           /\ last'.kind = "return"
           /\ last'.bool = TRUE
           /\ Len(dial.invoked) = Len(dial.snapshot)
           /\ \A i \in 1..Len(dial.snapshot) : dial.invoked[i].observer = dial.snapshot[i]
    ]_vars

\* C3: add, remove or dial of a string that fails validation throws the
\* validation error and changes neither the number set, the observer set
\* nor the history; a dial does not start a fan-out.
C3_InvalidInputHasNoEffect ==
  [][ \A op \in {"add", "remove", "dial"} :
        (IsCall(op) /\ ~HasFormat(last'.arg, Digit \cup WhiteSpace \cup {"-"})) =>
          /\ last'.kind = "throw"
          /\ last'.error = "PhoneNumberError"
          /\ phoneNumbers' = phoneNumbers
          /\ observers' = observers
          /\ eventHistory' = eventHistory
          /\ appended' = appended
          /\ dial' = dial
    ]_vars

\* an invalid dial was refused while a number and an observer were registered
C3_Witness ==
  /\ last.op = "dial"
  /\ last.kind = "throw"
  /\ last.error = "PhoneNumberError"
  /\ phoneNumbers # {}
  /\ observers # <<>>
  /\ eventHistory # <<>>

\* C4 as stated: validation succeeds exactly on an optional '+' followed by
\* at least ten digits, spaces or hyphens, and returns the string without
\* its spaces and hyphens.
C4_AsStated ==
  vout.kind # "none" =>
    IF HasFormat(vin, Digit \cup {" ", "-"})
    THEN /\ vout.kind = "return"
         /\ vout.value = SelectSeq(vin, LAMBDA c : c \notin {" ", "-"})
    ELSE /\ vout.kind = "throw"
         /\ vout.error = "PhoneNumberError"

\* C4: validation succeeds exactly on an optional '+' followed by at least
\* ten characters each a digit, a white space character or a hyphen, over
\* the whole string; it then returns the string without its white space
\* and hyphens, the leading '+' kept; every other string gets the
\* validation error.
C4_ValidateAcceptsFormat ==
  vout.kind # "none" =>
    IF HasFormat(vin, Digit \cup WhiteSpace \cup {"-"})
    THEN /\ vout.kind = "return"
         /\ vout.value = Stripped(vin)
         /\ vin[1] = "+" => (vout.value # <<>> /\ vout.value[1] = "+")
    ELSE /\ vout.kind = "throw"
         /\ vout.error = "PhoneNumberError"

\* a string with a '+', a tab and a hyphen was accepted and normalised
C4_Witness ==
  /\ vout.kind = "return"
  /\ vin[1] = "+"
  /\ \E i \in 1..Len(vin) : vin[i] = "\t"
  /\ \E i \in 1..Len(vin) : vin[i] = "-"
  /\ Len(vout.value) < Len(vin)

\* C5: validating the normalised result of an accepted string succeeds and
\* returns it unchanged.
C5_NormalizationIdempotent ==
  vout.kind = "return" => validatePhoneNumber(vout.value) = Returned(vout.value)

\* the latest add or remove event for the number in h is an add
AddedNotRemoved(h, number) ==
  \E i \in 1..Len(h) :
    /\ h[i].type = "add"
    /\ h[i].phoneNumber = number
    /\ \A j \in (i + 1)..Len(h) : ~(h[j].type = "remove" /\ h[j].phoneNumber = number)

\* C6: once a number was added and not removed since, a dial of any valid
\* string with the same normalised form appends one dial event carrying
\* the normalised number and returns true.
C6_DialAfterAddReturnsTrue ==
  [][ /\ ( /\ IsCall("dial")
           /\ HasFormat(last'.arg, Digit \cup WhiteSpace \cup {"-"})
           /\ AddedNotRemoved(eventHistory, Stripped(last'.arg)) ) =>
             /\ last'.kind = "pending"
             /\ OneAppended(eventHistory, "dial", Stripped(last'.arg))
      /\ IsDialCompletion =>
             /\ last'.kind = "return"
             /\ last'.bool = TRUE
    ]_vars

\* only digits, with an optional leading '+'
IsNormalized(number) ==
  \A i \in 1..Len(number) : number[i] \in Digit \/ (i = 1 /\ number[i] = "+")

\* C7: every stored number and the number of every add, remove and dial
\* event holds only digits and an optional leading '+'.
C7_StoredNumbersNormalized ==
  /\ \A number \in phoneNumbers : IsNormalized(number)
  /\ \A i \in 1..Len(eventHistory) :
       eventHistory[i].type \in {"add", "remove", "dial"} =>
         IsNormalized(eventHistory[i].phoneNumber)

\* numbers given with '+', hyphens, spaces and a tab were added, dialled
\* and removed
C7_Witness ==
  /\ \E i \in 1..Len(eventHistory) :
       eventHistory[i].type = "add" /\ eventHistory[i].phoneNumber = Stripped(NumA1)
  /\ \E i \in 1..Len(eventHistory) : eventHistory[i].type = "dial"
  /\ \E i \in 1..Len(eventHistory) : eventHistory[i].type = "remove"
  /\ last.op = "add"
  /\ last.arg = NumC1
  /\ last.value \in phoneNumbers

\* C8: removePhoneNumber of a valid string returns true exactly when its
\* normalised form was stored; the number is then gone and one remove event
\* is appended; otherwise it returns false and changes nothing.
C8_RemoveReportsMembership ==
  [][ (IsCall("remove") /\ HasFormat(last'.arg, Digit \cup WhiteSpace \cup {"-"})) =>
        LET number == Stripped(last'.arg)
        IN  /\ last'.kind = "return"
            /\ last'.bool = (number \in phoneNumbers)
            /\ IF number \in phoneNumbers
               THEN /\ phoneNumbers' = phoneNumbers \ {number}
                    /\ OneAppended(eventHistory, "remove", number)
               ELSE /\ phoneNumbers' = phoneNumbers
                    /\ eventHistory' = eventHistory
                    /\ appended' = appended
    ]_vars

\* a stored number was removed through another spelling of it
C8_Witness ==
  /\ last.op = "remove"
  /\ last.arg = NumA1
  /\ last.bool = TRUE
  /\ Stripped(NumA1) \notin phoneNumbers
  /\ phoneNumbers # {}
  /\ eventHistory[Len(eventHistory)].type = "remove"

\* a step of dialPhoneNumber: its call, its fan-out or its completion
IsDialStep ==
  \/ IsCall("dial")
  \/ dial' # dial

\* C9: no step of a dial changes the number set or the observer set; a dial
\* of a valid string whose number is not stored returns false, appends no
\* event and starts no notification.
C9_DialFrame ==
  [][ /\ IsDialStep => (phoneNumbers' = phoneNumbers /\ observers' = observers)
      /\ ( /\ IsCall("dial")
           /\ HasFormat(last'.arg, Digit \cup WhiteSpace \cup {"-"})
           /\ Stripped(last'.arg) \notin phoneNumbers ) =>
             /\ last'.kind = "return"
             /\ last'.bool = FALSE
             /\ eventHistory' = eventHistory
             /\ appended' = appended
             /\ dial' = dial
    ]_vars

\* an unknown number was dialled while another number and an observer were
\* registered
C9_Witness ==
  /\ last.op = "dial"
  /\ last.kind = "return"
  /\ last.bool = FALSE
  /\ Stripped(last.arg) \notin phoneNumbers
  /\ phoneNumbers # {}
  /\ observers # <<>>

\* C10: addPhoneNumber of a valid string whose normalised form is already
\* stored leaves the number set as it is, appends one add event for the
\* normalised number and returns the normalised number.
C10_ReAddAppendsEvent ==
  [][ ( /\ IsCall("add")
        /\ HasFormat(last'.arg, Digit \cup WhiteSpace \cup {"-"})
        /\ Stripped(last'.arg) \in phoneNumbers ) =>
          /\ phoneNumbers' = phoneNumbers
          /\ OneAppended(eventHistory, "add", Stripped(last'.arg))
          /\ last'.kind = "return"
          /\ last'.value = Stripped(last'.arg)
    ]_vars

\* a stored number was added again through another spelling of it
C10_Witness ==
  /\ last.op = "add"
  /\ last.arg = NumA2
  /\ Len(eventHistory) >= 2
  /\ eventHistory[Len(eventHistory)].type = "add"
  /\ \E i \in 1..(Len(eventHistory) - 1) :
       /\ eventHistory[i].type = "add"
       /\ eventHistory[i].phoneNumber = Stripped(NumA2)
       /\ \A j \in (i + 1)..Len(eventHistory) : eventHistory[j].type # "remove"
  /\ Cardinality(phoneNumbers) = 1

\* C11: removeObserver returns true exactly when the observer was
\* registered; it is then gone from the observer set and one observerRemoved
\* event with its id is appended; otherwise it returns false and changes
\* neither the observer set nor the history.
C11_RemoveObserverReportsMembership ==
  [][ \A o \in ObserverObjects :
        (IsCall("removeObserver") /\ last'.obs = o) =>
          LET registered == \E i \in 1..Len(observers) : observers[i] = o
          IN  /\ last'.kind = "return"
              /\ last'.bool = registered
              /\ IF registered
                 THEN /\ \A i \in 1..Len(observers') : observers'[i] # o
                      /\ Len(observers') = Len(observers) - 1
                      /\ \A p \in ObserverObjects \ {o} :
                           (\E i \in 1..Len(observers) : observers[i] = p)
                             <=> (\E i \in 1..Len(observers') : observers'[i] = p)
                      /\ OneAppended(eventHistory, "observerRemoved", ObserverId(o))
                 ELSE /\ observers' = observers
                      /\ eventHistory' = eventHistory
                      /\ appended' = appended
    ]_vars

\* a registered observer was removed while another one stayed
C11_Witness ==
  /\ last.op = "removeObserver"
  /\ last.bool = TRUE
  /\ Len(observers) = 1
  /\ eventHistory[Len(eventHistory)].type = "observerRemoved"
  /\ eventHistory[Len(eventHistory)].phoneNumber = ObserverId(last.obs)
  /\ Len(eventHistory) = 3

\* a step that is a call of notify on the observer of the harness
IsNotifyCall ==
  notifyCall'.seq = notifyCall.seq + 1

\* C12: in every notify call the built-in simple action runs exactly when
\* the tag set holds 'simple' and the detailed one exactly when it holds
\* 'detailed', whatever the event type; a custom handler runs exactly when
\* it is the handler registered for the event type of the call.
C12_NotifySelectsActions ==
  [][ IsNotifyCall =>
        /\ ("simple" \in notifyCall'.ran) <=> ("simple" \in subject.types)
        /\ ("detailed" \in notifyCall'.ran) <=> ("detailed" \in subject.types)
        /\ \A h \in Handlers :
             (h \in notifyCall'.ran) <=>
               (\E e \in subject.customHandlers :
                  e.type = notifyCall'.eventType /\ e.handler = h)
        /\ notifyCall'.ran \subseteq {"simple", "detailed"} \cup Handlers
    ]_vars

\* notify with an event type other than dial ran a built-in action and the
\* handler of that type, while another handler, registered for dial, did not
\* run
C12_Witness ==
  /\ notifyCall.eventType = "emergency"
  /\ "simple" \in notifyCall.ran
  /\ "handlerA" \in notifyCall.ran
  /\ "handlerB" \notin notifyCall.ran
  /\ [type |-> "dial", handler |-> "handlerB"] \in subject.customHandlers
  /\ [type |-> "emergency", handler |-> "handlerA"] \in subject.customHandlers

\* C15: the promise of one notify call settles only when the handler it
\* called has settled; when the handler throws or rejects, the built-in
\* actions of the subscribed tags have run all the same and the promise of
\* notify is rejected with the handler's failure value.
C15_NotifyWaitsAndDeliversFailure ==
  [][ /\ notifyCall'.promise \in {"fulfilled", "rejected"} => notifyCall'.handler # "pending"
      /\ notifyCall'.handler \in {"threw", "rejected"} =>
           /\ notifyCall'.promise = "rejected"
           /\ notifyCall'.promiseError = notifyCall'.failure
           /\ notifyCall'.failure \in FailureValues
      /\ IsNotifyCall =>
           \A b \in {"simple", "detailed"} : b \in subject.types => b \in notifyCall'.ran
    ]_vars

\* the promise of a handler was rejected with null after both built-in
\* actions had run, and notify is rejected with that value
C15_Witness ==
  /\ notifyCall.handler = "rejected"
  /\ notifyCall.promise = "rejected"
  /\ notifyCall.promiseError = "null"
  /\ "simple" \in notifyCall.ran
  /\ "detailed" \in notifyCall.ran
  /\ Cardinality(notifyCall.ran) = 3

\* C13: getEventHistory returns, in the order of the history, exactly the
\* events that satisfy every option that is given: type equal, timestamp
\* >= startDate, timestamp <= endDate; an option that is left out does not
\* constrain, and an option that is given constrains whatever its value.
C13_QueryAppliesEveryGivenOption ==
  answer.done =>
    answer.events =
      SelectSeq(query.history,
                LAMBDA event :
                  /\ query.type # "undefined" => event.type = query.type
                  /\ query.startDate.given => event.timestamp >= query.startDate.t
                  /\ query.endDate.given => event.timestamp <= query.endDate.t)

\* the observers of a sequence, as a set
Range(f) ==
  {f[i] : i \in 1..Len(f)}

\* this step is the call of a dial of a stored number
IsKnownDialCall ==
  /\ IsCall("dial")
  /\ last'.kind = "pending"

\* C14: the call of a dial of a stored number appends the dial event while
\* no observer has been invoked; between the call and the await the only
\* steps of the dial are invocations of one more observer, and no
\* notification already started changes state in between; the dial
\* returns true only when every observer of the fan-out has been invoked
\* and its notification has completed or failed.
C14_DialEventThenFanOutThenTrue ==
  [][ /\ IsKnownDialCall =>
           /\ eventHistory' # <<>>
           /\ eventHistory'[Len(eventHistory')] =
                PhoneEvent("dial", Stripped(last'.arg), appended + 1)
           /\ dial'.invoked = <<>>
           /\ \A o \in ObserverObjects : dial'.notif[o] = "none"
      /\ (dial.pc = "map" /\ dial' # dial) =>
           /\ Len(dial'.invoked) = Len(dial.invoked) + 1
           /\ \A o \in ObserverObjects :
                dial.notif[o] # "none" => dial'.notif[o] = dial.notif[o]
      /\ (IsDialCompletion /\ last'.kind = "return" /\ last'.bool) =>
           /\ Len(dial.invoked) = Len(dial.snapshot)
           /\ \A o \in Range(dial.snapshot) : dial.notif[o] \notin {"none", "pending"}
    ]_vars

\* both observers have been invoked, the second while the promise of the
\* first was pending; that promise has since been rejected with an Error
\* and the dial is about to return true
C14_Witness ==
  /\ dial.pc = "await"
  /\ Len(dial.invoked) = 2
  /\ dial.invoked[1].observer = "observer1"
  /\ dial.notif["observer1"] = "Error"
  /\ dial.notif["observer2"] = "fulfilled"

\* C16: when every handler promise settles, every dial of a stored number
\* that has started comes back with a value; and a dial in flight comes
\* back only when no notification of its fan-out is still pending, its dial
\* event being in the history all the while.
C16_DialReturnsWhenActionsSettle ==
  /\ \A id \in 1..MaxCalls :
       (dial.pc # "idle" /\ dial.id = id) ~>
         (last.id = id /\ last.op = "dial" /\ last.kind = "return")
  /\ [][ IsDialCompletion =>
           /\ \A o \in Range(dial.snapshot) : dial.notif[o] # "pending"
           /\ \E i \in 1..Len(eventHistory) :
                eventHistory[i] = PhoneEvent("dial", dial.number, eventHistory[i].seq)
       ]_vars

\* C17: the fan-out of a dial is fixed when it starts: it is the observer
\* set at the call, it does not change while the dial is in flight whatever
\* is added to or removed from the observer set, each step of the map
\* invokes the next observer of it, and at the end of the dial the
\* observers invoked are exactly its members.
C17_FanOutOverSnapshot ==
  [][ /\ IsKnownDialCall => dial'.snapshot = observers
      /\ (dial.pc # "idle" /\ dial'.pc # "idle") => dial'.snapshot = dial.snapshot
      /\ (dial.pc = "map" /\ dial' # dial) =>
           /\ Len(dial'.invoked) = Len(dial.invoked) + 1
           /\ dial'.invoked[Len(dial'.invoked)].observer = dial.snapshot[Len(dial.invoked) + 1]
      /\ IsDialCompletion =>
           /\ Len(dial.invoked) = Len(dial.snapshot)
           /\ \A i \in 1..Len(dial.snapshot) : dial.invoked[i].observer = dial.snapshot[i]
    ]_vars

\* the fan-out is over observer1 alone and has invoked it; meanwhile
\* observer2 was added and observer1 was removed
C17_Witness ==
  /\ dial.pc = "await"
  /\ dial.snapshot = <<"observer1">>
  /\ observers = <<"observer2">>
  /\ Len(dial.invoked) = 1
  /\ dial.invoked[1].observer = "observer1"

\* the latest event of h about key whose type is on or off has type on
LatestIs(h, key, on, off) ==
  \E i \in 1..Len(h) :
    /\ h[i].type = on
    /\ h[i].phoneNumber = key
    /\ \A j \in (i + 1)..Len(h) :
         ~(h[j].type \in {on, off} /\ h[j].phoneNumber = key)

\* the normalised numbers the environment can name
Numbers ==
  {Stripped(s) : s \in Inputs}

\* C18: while nothing has been evicted from the history, a number is stored
\* exactly when the latest add or remove event about it is an add, an
\* observer is registered exactly when the latest observerAdded or
\* observerRemoved event about its id is an observerAdded, and for every
\* dial event the latest add or remove event about its number before it is
\* an add.
C18_HistoryDeterminesState ==
  appended <= maxHistorySize =>
    /\ phoneNumbers \subseteq Numbers
    /\ \A number \in Numbers :
         number \in phoneNumbers <=> LatestIs(eventHistory, number, "add", "remove")
    /\ \A o \in ObserverObjects :
         SetHas(observers, o) <=>
           LatestIs(eventHistory, ObserverId(o), "observerAdded", "observerRemoved")
    /\ \A i \in 1..Len(eventHistory) :
         eventHistory[i].type = "dial" =>
           LatestIs(SubSeq(eventHistory, 1, i - 1), eventHistory[i].phoneNumber,
                    "add", "remove")

\* a number was added, dialed and removed, and an observer was added and
\* removed: the sets are empty again and the history tells why
C18_Witness ==
  /\ phoneNumbers = {}
  /\ observers = <<>>
  /\ \E i, j, k \in 1..Len(eventHistory) :
       /\ i < j
       /\ j < k
       /\ eventHistory[i].type = "add"
       /\ eventHistory[j].type = "dial"
       /\ eventHistory[k].type = "remove"
  /\ \E i \in 1..Len(eventHistory) : eventHistory[i].type = "observerRemoved"

\* C19: when a dial returns true, every observer of the observer set it
\* started with was invoked exactly once, with the normalised number and
\* the event type 'dial', and nothing else was invoked; addObserver of an
\* observer that is registered leaves the observer set as it is and appends
\* one observerAdded event with its id; no observer is in the set twice.
C19_OneNotifyPerObserver ==
  [][ /\ (IsDialCompletion /\ last'.kind = "return" /\ last'.bool) =>
           /\ \A o \in Range(dial.snapshot) :
                Cardinality({i \in 1..Len(dial.invoked) : dial.invoked[i].observer = o}) = 1
           /\ \A i \in 1..Len(dial.invoked) :
                /\ dial.invoked[i].observer \in Range(dial.snapshot)
                /\ dial.invoked[i].phoneNumber = Stripped(dial.arg)
                /\ dial.invoked[i].eventType = "dial"
      /\ IsKnownDialCall =>
           /\ dial'.snapshot = observers
           /\ \A o \in ObserverObjects :
                Cardinality({i \in 1..Len(observers) : observers[i] = o}) <= 1
      /\ (IsCall("addObserver") /\ SetHas(observers, last'.obs)) =>
           /\ observers' = observers
           /\ OneAppended(eventHistory, "observerAdded", ObserverId(last'.obs))
    ]_vars

\* observer1 was added twice and not removed, and a dial that started
\* afterwards has returned true
C19_Witness ==
  /\ last.op = "dial"
  /\ last.kind = "return"
  /\ last.bool
  /\ \E i, j, k \in 1..Len(eventHistory) :
       /\ i < j
       /\ j < k
       /\ eventHistory[i] = PhoneEvent("observerAdded", ObserverId("observer1"), eventHistory[i].seq)
       /\ eventHistory[j] = PhoneEvent("observerAdded", ObserverId("observer1"), eventHistory[j].seq)
       /\ eventHistory[k].type = "dial"
  /\ \A i \in 1..Len(eventHistory) : eventHistory[i].type # "observerRemoved"

\* the latest dial event of h is about number and a remove event about
\* number comes after it
RemovedSinceDial(h, number) ==
  \E i, j \in 1..Len(h) :
    /\ i < j
    /\ h[i].type = "dial"
    /\ h[i].phoneNumber = number
    /\ \A k \in (i + 1)..Len(h) : h[k].type # "dial"
    /\ h[j].type = "remove"
    /\ h[j].phoneNumber = number

\* C20: a removePhoneNumber of the number of the dial in flight that finds
\* it leaves the dial as it is and appends its remove event after the dial
\* event; and a dial whose number was removed while it was in flight still
\* returns true, every observer of its fan-out having been notified.
C20_DialDecidedAtCall ==
  [][ /\ ( /\ IsCall("remove")
           /\ dial.pc # "idle"
           /\ last'.kind = "return"
           /\ last'.bool
           /\ Stripped(last'.arg) = dial.number ) =>
             /\ dial' = dial
             /\ OneAppended(eventHistory, "remove", dial.number)
             /\ RemovedSinceDial(eventHistory', dial.number)
      /\ (IsDialCompletion /\ RemovedSinceDial(eventHistory, dial.number)) =>
             /\ last'.kind = "return"
             /\ last'.bool = TRUE
             /\ Len(dial.invoked) = Len(dial.snapshot)
             /\ \A o \in Range(dial.snapshot) : dial.notif[o] \notin {"none", "pending"}
    ]_vars

====
